---- MODULE Spec2Model ----
(***************************************************************************)
(* Model of the task scheduler (scheduler.py): the schedule matcher        *)
(* (should_task_run and its cron / legacy variants), the two executors     *)
(* (run_task, run_http_task), the dedup store (last_runs) and the polling  *)
(* loop of main().                                                         *)
(*                                                                         *)
(* Time is the Pacific wall clock in whole seconds counted from Monday     *)
(* 2026-02-16 00:00:00; the window the model explores contains no          *)
(* daylight-saving transition.                                             *)
(***************************************************************************)
EXTENDS Integers, Sequences, FiniteSets, TLC

VARIABLES
    pc,          \* position of the process inside main() / the harness
    config,      \* the config file load_tasks() finds (or does not find)
    tasks,       \* the loaded task list (main: tasks = load_tasks())
    last_runs,   \* the dedup store (main: last_runs = {})
    clock,       \* the wall clock datetime.now(PACIFIC_TZ) would return
    now,         \* the timestamp captured at the start of the tick
    i,           \* index into tasks of the task in hand ("for task in tasks")
    due,         \* value returned by the last should_task_run call
    result,      \* what the last executor call did (returned code or raised)
    started,     \* history: <<name, key>> of every executor call made by the loop
    dup,         \* history: an executor call repeated a <<name, key>> of started
    last_done,   \* history: per name, key and code of the last completed dispatch
    ticks,       \* history: facts about the tick in progress / last finished
    interrupted  \* history: a KeyboardInterrupt has been delivered

vars == <<pc, config, tasks, last_runs, clock, now, i, due, result,
          started, dup, last_done, ticks, interrupted>>

-----------------------------------------------------------------------------
(* Bounds of the exploration *)

\* seconds of wall clock the loop is followed past LoopT0
MaxClock == 300
\* last day (counted from the epoch) the matcher harness draws timestamps from
MaxDay == 6

-----------------------------------------------------------------------------
(* Program constants *)

DEFAULT_TIMEOUT == 120
TICK_SLEEP == 30
BACKOFF_SLEEP == 60
CRON_WINDOW == 60
HEARTBEAT_SECONDS == 30
LAST_WEEKDAY == 4

None == <<>>

-----------------------------------------------------------------------------
(* Calendar: what datetime gives for a timestamp *)

SecPerMin == 60
SecPerHour == 60 * SecPerMin
SecPerDay == 24 * SecPerHour

EpochDate == [year |-> 2026, month |-> 2, day |-> 16]

DaysInMonth(y, m) ==
    IF m = 2 THEN (IF y % 4 = 0 /\ (y % 100 # 0 \/ y % 400 = 0) THEN 29 ELSE 28)
    ELSE IF m \in {4, 6, 9, 11} THEN 30 ELSE 31

NextDate(d) ==
    IF d.day < DaysInMonth(d.year, d.month)
    THEN [d EXCEPT !.day = d.day + 1]
    ELSE IF d.month < 12
         THEN [d EXCEPT !.month = d.month + 1, !.day = 1]
         ELSE [year |-> d.year + 1, month |-> 1, day |-> 1]

RECURSIVE DateOfDay(_)
DateOfDay(n) == IF n = 0 THEN EpochDate ELSE NextDate(DateOfDay(n - 1))

DayIndex(t) == t \div SecPerDay
DateOf(t)   == DateOfDay(DayIndex(t))
HourOf(t)   == (t % SecPerDay) \div SecPerHour
MinuteOf(t) == (t % SecPerHour) \div SecPerMin
SecondOf(t) == t % SecPerMin
\* datetime.weekday(): Monday = 0 ... Sunday = 6 (the epoch is a Monday)
Weekday(t)  == DayIndex(t) % 7

Stamp(day, h, m, s) == day * SecPerDay + h * SecPerHour + m * SecPerMin + s

\* now.strftime("%Y-%m-%d %H:%M") and now.strftime("%Y-%m-%d %H"): the text is
\* modelled by the sequence of the numbers it prints
FormatMinute(t) ==
    <<DateOf(t).year, DateOf(t).month, DateOf(t).day, HourOf(t), MinuteOf(t)>>
FormatHour(t) ==
    <<DateOf(t).year, DateOf(t).month, DateOf(t).day, HourOf(t)>>

-----------------------------------------------------------------------------
(* Cron expressions: a field is a sequence of items, as croniter expands it *)

Star         == [kind |-> "star", lo |-> 0, hi |-> 0, step |-> 1]
Every(n)     == [kind |-> "star", lo |-> 0, hi |-> 0, step |-> n]
Val(v)       == [kind |-> "range", lo |-> v, hi |-> v, step |-> 1]
Range(a, b)  == [kind |-> "range", lo |-> a, hi |-> b, step |-> 1]

ExpandItem(it, lo, hi) ==
    IF it.kind = "star"
    THEN {v \in lo..hi : (v - lo) % it.step = 0}
    ELSE {v \in it.lo..it.hi : (v - it.lo) % it.step = 0}

ExpandField(f, lo, hi) ==
    UNION {ExpandItem(f[k], lo, hi) : k \in 1..Len(f)}

IsStar(f) == \E k \in 1..Len(f) : f[k].kind = "star" /\ f[k].step = 1

Cron(mi, h, dom, mon, dow) ==
    [minute |-> mi, hour |-> h, dom |-> dom, month |-> mon, dow |-> dow]

CronMinutes(c) == ExpandField(c.minute, 0, 59)
CronHours(c)   == ExpandField(c.hour, 0, 23)
CronDoms(c)    == ExpandField(c.dom, 1, 31)
CronMonths(c)  == ExpandField(c.month, 1, 12)
\* day of week 0-6 with 0 = Sunday; 7 is accepted as Sunday as well
CronDows(c)    == {v % 7 : v \in ExpandField(c.dow, 0, 6)}

\* cron's day of week of a timestamp (Sunday = 0)
CronDow(t) == (Weekday(t) + 1) % 7

\* the day of t is a day of the expression: when both day fields are
\* restricted a match on either one is enough
CronDayMatches(c, t) ==
    /\ DateOf(t).month \in CronMonths(c)
    /\ LET domOk == DateOf(t).day \in CronDoms(c)
           dowOk == CronDow(t) \in CronDows(c)
       IN  IF IsStar(c.dom) THEN dowOk
           ELSE IF IsStar(c.dow) THEN domOk
           ELSE domOk \/ dowOk

SetMax(S) == CHOOSE x \in S : \A y \in S : y <= x

\* stands for an occurrence that lies before the epoch of the model
BeforeEpoch == 0 - SecPerDay

\* the latest occurrence of c within one day that is at or before minute
\* hm (minutes since midnight), or -1 when the day has none
LastOnDay(c, hm) ==
    LET h0 == hm \div 60
        m0 == hm % 60
        ms == {m \in CronMinutes(c) : m <= m0}
        hs == {h \in CronHours(c) : h < h0}
    IN  IF h0 \in CronHours(c) /\ ms # {} THEN h0 * 60 + SetMax(ms)
        ELSE IF hs # {} /\ CronMinutes(c) # {}
             THEN SetMax(hs) * 60 + SetMax(CronMinutes(c))
             ELSE 0 - 1

RECURSIVE PrevFromDay(_, _, _)
PrevFromDay(c, day, hm) ==
    IF day < 0 THEN BeforeEpoch
    ELSE LET t0 == day * SecPerDay
             l  == IF CronDayMatches(c, t0) THEN LastOnDay(c, hm) ELSE 0 - 1
         IN  IF l >= 0 THEN t0 + l * SecPerMin
             ELSE PrevFromDay(c, day - 1, 24 * 60 - 1)

\* croniter(schedule, now).get_prev(datetime): the latest occurrence strictly
\* before now (an occurrence equal to now is stepped over)
get_prev(c, t) ==
    LET start == IF SecondOf(t) > 0 THEN t - SecondOf(t) ELSE t - SecPerMin
    IN  IF start < 0 THEN BeforeEpoch
        ELSE PrevFromDay(c, DayIndex(start), (start % SecPerDay) \div SecPerMin)

-----------------------------------------------------------------------------
(* Tasks: dicts with optional fields *)

Has(d, k) == k \in DOMAIN d
Get(d, k, default) == IF k \in DOMAIN d THEN d[k] ELSE default
\* dict.get(k) with the default None
DictGet(d, k) == IF k \in DOMAIN d THEN d[k] ELSE None

_is_cron_task(task) == Has(task, "schedule")

\* JSON scalars and lists carry their type; a dict is a record without tag
S(s) == [t |-> "str", v |-> s]
N(s) == [t |-> "num", v |-> s]
L(q) == [t |-> "list", v |-> q]
IsStr(x)  == Has(x, "t") /\ x.t = "str"
IsList(x) == Has(x, "t") /\ x.t = "list"
IsDict(x) == ~Has(x, "t")

-----------------------------------------------------------------------------
(* Schedule matcher *)

\* a variant that fires only in the first half of the minute
_should_run_cron_narrow(task, t, lr) ==
    LET prev_match == get_prev(task.schedule, t)
        diff       == t - prev_match
    IN  IF 2 * diff >= CRON_WINDOW THEN FALSE
        ELSE IF DictGet(lr, task.name) = FormatMinute(t) THEN FALSE
        ELSE TRUE

\* a variant that still fires for an occurrence up to two minutes old
_should_run_cron_catchup(task, t, lr) ==
    LET prev_match == get_prev(task.schedule, t)
        diff       == t - prev_match
    IN  IF diff >= 2 * CRON_WINDOW THEN FALSE
        ELSE IF DictGet(lr, task.name) = FormatMinute(t) THEN FALSE
        ELSE TRUE

\* a variant that forgets the dedup comparison
_should_run_cron_nodedup(task, t, lr) ==
    (t - get_prev(task.schedule, t)) < CRON_WINDOW

_should_run_cron(task, t, lr) ==
    LET prev_match == get_prev(task.schedule, t)
        diff       == t - prev_match
    IN  IF diff >= CRON_WINDOW THEN FALSE
        ELSE IF DictGet(lr, task.name) = FormatMinute(t) THEN FALSE
        ELSE TRUE

\* a variant whose dedup comparison uses the minute key
_should_run_legacy_minutekey(task, t, lr) ==
    IF task.days = "weekdays" /\ Weekday(t) > LAST_WEEKDAY THEN FALSE
    ELSE IF HourOf(t) # task.hour \/ MinuteOf(t) # task.minute THEN FALSE
    ELSE IF DictGet(lr, task.name) = FormatMinute(t) THEN FALSE
    ELSE TRUE

\* a variant whose dedup comparison takes the entry of any name
_should_run_legacy_anyentry(task, t, lr) ==
    IF task.days = "weekdays" /\ Weekday(t) > LAST_WEEKDAY THEN FALSE
    ELSE IF HourOf(t) # task.hour \/ MinuteOf(t) # task.minute THEN FALSE
    ELSE IF \E n \in DOMAIN lr : lr[n] = FormatHour(t) THEN FALSE
    ELSE TRUE

\* a variant that does not look at the task's days
_should_run_legacy_alldays(task, t, lr) ==
    IF HourOf(t) # task.hour \/ MinuteOf(t) # task.minute THEN FALSE
    ELSE IF DictGet(lr, task.name) = FormatHour(t) THEN FALSE
    ELSE TRUE

\* a variant that takes Saturday for a weekday
_should_run_legacy_sat(task, t, lr) ==
    IF task.days = "weekdays" /\ Weekday(t) > LAST_WEEKDAY + 1 THEN FALSE
    ELSE IF HourOf(t) # task.hour \/ MinuteOf(t) # task.minute THEN FALSE
    ELSE IF DictGet(lr, task.name) = FormatHour(t) THEN FALSE
    ELSE TRUE

_should_run_legacy(task, t, lr) ==
    IF task.days = "weekdays" /\ Weekday(t) > LAST_WEEKDAY THEN FALSE
    ELSE IF HourOf(t) # task.hour \/ MinuteOf(t) # task.minute THEN FALSE
    ELSE IF DictGet(lr, task.name) = FormatHour(t) THEN FALSE
    ELSE TRUE

\* a variant that takes a task with an hour field for a legacy task
should_task_run_byhour(task, t, lr) ==
    IF Has(task, "hour")
    THEN _should_run_legacy(task, t, lr)
    ELSE _should_run_cron(task, t, lr)

should_task_run(task, t, lr) ==
    IF _is_cron_task(task)
    THEN _should_run_cron(task, t, lr)
    ELSE _should_run_legacy(task, t, lr)

\* a variant that keys every task by the hour
\* a variant with minute keys for both schedule forms
_get_dedup_key_minute(task, t) ==
    IF _is_cron_task(task) THEN FormatMinute(t) ELSE FormatMinute(t)

_get_dedup_key_hour(task, t) ==
    IF _is_cron_task(task) THEN FormatHour(t) ELSE FormatHour(t)

_get_dedup_key(task, t) ==
    IF _is_cron_task(task) THEN FormatMinute(t) ELSE FormatHour(t)

-----------------------------------------------------------------------------
(* Validation at load *)

VALID_DAYS == {"daily", "weekdays"}
VALID_TASK_TYPES == {"command", "http"}
LEGACY_REQUIRED_FIELDS == {"name", "hour", "minute", "days", "command"}
HTTP_METHODS == {"GET", "POST", "PUT", "DELETE", "PATCH"}

\* str.upper() on the method names the model uses
Upper(m) ==
    CASE m = "get"    -> "GET"
      [] m = "post"   -> "POST"
      [] m = "put"    -> "PUT"
      [] m = "delete" -> "DELETE"
      [] m = "patch"  -> "PATCH"
      [] OTHER        -> m

ItemInRange(it, lo, hi) ==
    /\ it.step >= 1
    /\ it.kind = "range" => (lo <= it.lo /\ it.lo <= it.hi /\ it.hi <= hi)

FieldValid(f, lo, hi) ==
    Len(f) >= 1 /\ \A k \in 1..Len(f) : ItemInRange(f[k], lo, hi)

\* croniter.is_valid(schedule): five fields, every item inside its range
\* (day of week up to 7)
croniter_is_valid(c) ==
    /\ Has(c, "minute")
    /\ FieldValid(c.minute, 0, 59)
    /\ FieldValid(c.hour, 0, 23)
    /\ FieldValid(c.dom, 1, 31)
    /\ FieldValid(c.month, 1, 12)
    /\ FieldValid(c.dow, 0, 7)

\* isinstance(schedule, str): a parsed expression stands for the string it
\* was written as; S(..) is a string that is no cron expression
IsAString(sch) == Has(sch, "minute") \/ IsStr(sch)

_validate_cron_task(task) ==
    /\ IsAString(task.schedule)
    /\ croniter_is_valid(task.schedule)

\* a variant that lets hour 24 pass
_validate_legacy_task_24(task) ==
    /\ LEGACY_REQUIRED_FIELDS \subseteq DOMAIN task
    /\ task.days \in VALID_DAYS
    /\ 0 <= task.hour /\ task.hour <= 24
    /\ 0 <= task.minute /\ task.minute <= 59

_validate_legacy_task(task) ==
    /\ LEGACY_REQUIRED_FIELDS \subseteq DOMAIN task
    /\ task.days \in VALID_DAYS
    /\ 0 <= task.hour /\ task.hour <= 23
    /\ 0 <= task.minute /\ task.minute <= 59

_validate_http_task(task) ==
    /\ Has(task, "http")
    /\ IsDict(task.http)
    /\ Has(task.http, "url")
    /\ Upper(Get(task.http, "method", "GET")) \in HTTP_METHODS

\* TRUE when validate_task returns without raising
validate_task(task) ==
    /\ IsDict(task)
    /\ Has(task, "name")
    /\ Get(task, "type", "command") \in VALID_TASK_TYPES
    /\ IF _is_cron_task(task) THEN _validate_cron_task(task)
                               ELSE _validate_legacy_task(task)
    /\ IF Get(task, "type", "command") = "http"
       THEN _validate_http_task(task)
       ELSE /\ Has(task, "command")
            /\ IsList(task.command)
            /\ Len(task.command.v) > 0

\* the config file: absent, or holding a JSON value
MissingFile    == [exists |-> FALSE]
FileWith(json) == [exists |-> TRUE, json |-> json]

Raise(e)   == [raised |-> e, tasks |-> <<>>]
Return(ts) == [raised |-> "none", tasks |-> ts]

\* a variant that drops the tasks validate_task rejects
load_tasks_lenient(cfg) ==
    IF ~cfg.exists THEN Raise("FileNotFoundError")
    ELSE IF ~IsList(cfg.json) THEN Raise("ValueError")
    ELSE Return(SelectSeq(cfg.json.v, LAMBDA t : validate_task(t)))

\* a variant that rejects a list in which two tasks share a name
load_tasks_unique(cfg) ==
    IF ~cfg.exists THEN Raise("FileNotFoundError")
    ELSE IF ~IsList(cfg.json) THEN Raise("ValueError")
    ELSE IF \E k \in 1..Len(cfg.json.v) : ~validate_task(cfg.json.v[k])
         THEN Raise("ValueError")
         ELSE IF \E a, b \in 1..Len(cfg.json.v) :
                    a # b /\ cfg.json.v[a].name = cfg.json.v[b].name
              THEN Raise("ValueError")
              ELSE Return(cfg.json.v)

\* load_tasks: the exception it raises, or the list it returns
load_tasks(cfg) ==
    IF ~cfg.exists THEN Raise("FileNotFoundError")
    ELSE IF ~IsList(cfg.json) THEN Raise("ValueError")
    ELSE IF \E k \in 1..Len(cfg.json.v) : ~validate_task(cfg.json.v[k])
         THEN Raise("ValueError")
         ELSE Return(cfg.json.v)

-----------------------------------------------------------------------------
(* Executors *)

\* what the executor call left behind: whether an exception left the
\* function, the value returned, whether the subprocess / request was
\* started, how that ended, the timeout and payload handed to it, and which
\* executor it was
NoResult ==
    [raised |-> FALSE, code |-> 0, ran |-> FALSE, outcome |-> "none",
     status |-> 0, timeout |-> 0, json |-> [sent |-> FALSE], by |-> "none"]

Exit(c)      == [kind |-> "exit", code |-> c]
ProcTimeout  == [kind |-> "timeout", code |-> 0]
ProcError    == [kind |-> "error", code |-> 0]
Response(st) == [kind |-> "response", code |-> st]
HttpTimeout  == [kind |-> "timeout", code |-> 0]
HttpConnErr  == [kind |-> "connection", code |-> 0]
HttpError    == [kind |-> "error", code |-> 0]

\* ' '.join(task['command']) needs every element to be a string
JoinRaises(cmd) == \E k \in 1..Len(cmd.v) : ~IsStr(cmd.v[k])

\* a variant that reports every failing exit as 1
run_task_flat(task, o) ==
    IF JoinRaises(task.command)
    THEN [NoResult EXCEPT !.raised = TRUE, !.by = "run_task"]
    ELSE [NoResult EXCEPT
            !.by = "run_task",
            !.ran = TRUE,
            !.outcome = o.kind,
            !.status = o.code,
            !.timeout = Get(task, "timeout", DEFAULT_TIMEOUT),
            !.code = IF o.kind = "exit" /\ o.code = 0 THEN 0 ELSE 1]

run_task(task, o) ==
    IF JoinRaises(task.command)
    THEN [NoResult EXCEPT !.raised = TRUE, !.by = "run_task"]
    ELSE [NoResult EXCEPT
            !.by = "run_task",
            !.ran = TRUE,
            !.outcome = o.kind,
            !.status = o.code,
            !.timeout = Get(task, "timeout", DEFAULT_TIMEOUT),
            !.code = IF o.kind = "exit" THEN o.code ELSE 1]

\* a variant under which every body counts as present
TruthyAny(body) == DOMAIN body = DOMAIN body

\* truth value of a dict: empty is false
Truthy(body) == DOMAIN body # {}

\* a variant that takes every received response for a success
run_http_task_anystatus(task, o) ==
    LET http            == task.http
        body            == Get(http, "body", None)
        timeout         == Get(task, "timeout", DEFAULT_TIMEOUT)
    IN  [NoResult EXCEPT
            !.by = "run_http_task",
            !.ran = TRUE,
            !.outcome = o.kind,
            !.status = o.code,
            !.timeout = timeout,
            !.json = IF Truthy(body)
                     THEN [sent |-> TRUE, body |-> body]
                     ELSE [sent |-> FALSE],
            !.code = IF o.kind = "response" THEN 0 ELSE 1]

run_http_task(task, o) ==
    LET http            == task.http
        body            == Get(http, "body", None)
        expected_status == Get(http, "expected_status", {200})
        timeout         == Get(task, "timeout", DEFAULT_TIMEOUT)
    IN  [NoResult EXCEPT
            !.by = "run_http_task",
            !.ran = TRUE,
            !.outcome = o.kind,
            !.status = o.code,
            !.timeout = timeout,
            !.json = IF Truthy(body)
                     THEN [sent |-> TRUE, body |-> body]
                     ELSE [sent |-> FALSE],
            !.code = IF o.kind = "response" /\ o.code \in expected_status
                     THEN 0 ELSE 1]

\* a variant that chooses the executor by the presence of a command
Execute_bycommand(task, o) ==
    IF Has(task, "command")
    THEN run_task(task, o)
    ELSE run_http_task(task, o)

\* main, lines 390-394: the executor is chosen by the task's type
Execute(task, o) ==
    IF Get(task, "type", "command") = "http"
    THEN run_http_task(task, o)
    ELSE run_task(task, o)

\* 0, failing exits, and a negative code (ended by a signal)
ExitCodes    == {0, 1, 2, 127, 0 - 9}
StatusCodes  == {200, 201, 404, 500}
ProcOutcomes == {Exit(c) : c \in ExitCodes} \cup {ProcTimeout, ProcError}
HttpOutcomes == {Response(st) : st \in StatusCodes}
                    \cup {HttpTimeout, HttpConnErr, HttpError}
OutcomesOf(task) ==
    IF Get(task, "type", "command") = "http" THEN HttpOutcomes ELSE ProcOutcomes

-----------------------------------------------------------------------------
(* The task lists the loop is run on *)

EveryMinute == Cron(<<Star>>, <<Star>>, <<Star>>, <<Star>>, <<Star>>)
Daily0100   == Cron(<<Val(0)>>, <<Val(1)>>, <<Star>>, <<Star>>, <<Star>>)
EvenMinutes == Cron(<<Every(2)>>, <<Star>>, <<Star>>, <<Star>>, <<Star>>)
Market      == Cron(<<Every(10)>>, <<Range(6, 13)>>, <<Star>>, <<Star>>,
                    <<Range(1, 5)>>)

T1 ==
    [name |-> "t1", schedule |-> Daily0100, type |-> "command",
     command |-> L(<<S("echo"), S("hi")>>)]
TestTask ==
    [name |-> "test_task", hour |-> 1, minute |-> 0, days |-> "daily",
     command |-> L(<<S("echo"), S("hello")>>), timeout |-> 10]
WeekdayTask ==
    [name |-> "weekday_only", hour |-> 9, minute |-> 30, days |-> "weekdays",
     command |-> L(<<S("echo"), S("weekday")>>), timeout |-> 10]
\* accepted by validate_task although one element of command is a number
SleepTask ==
    [name |-> "sleeper", schedule |-> EvenMinutes,
     command |-> L(<<S("sleep"), N("5")>>)]
HttpTask ==
    [name |-> "http_task", schedule |-> EveryMinute, type |-> "http",
     http |-> [method |-> "POST", url |-> "http://backendv2:8500/tos-generate",
               body |-> [days |-> 1], expected_status |-> {200}],
     timeout |-> 120]

\* a legacy task of type http that also carries a command
LegacyHttpTask ==
    [name |-> "legacy_http", hour |-> 1, minute |-> 0, days |-> "daily",
     command |-> L(<<S("echo")>>), type |-> "http",
     http |-> [url |-> "http://localhost/api"]]

\* a task with a schedule that also carries legacy fields
MixedTask ==
    [name |-> "mixed", schedule |-> Daily0100, hour |-> 9, minute |-> 30,
     days |-> "weekdays", command |-> L(<<S("echo"), S("mixed")>>)]

\* the same with legacy fields no legacy task may have
MixedOddTask ==
    [MixedTask EXCEPT !.name = "mixed_odd", !.hour = 25, !.days = "monthly"]

\* tasks that share the name and the schedule of another one
T1Twin   == [T1 EXCEPT !.command = L(<<S("echo"), S("twin")>>)]
TestTwin == [TestTask EXCEPT !.command = L(<<S("echo"), S("twin")>>)]
TwinList == <<T1, T1Twin, TestTask, TestTwin>>

TaskLists ==
    {<<T1, TestTask, SleepTask, HttpTask>>, <<T1, TestTask, HttpTask>>, <<T1>>,
     TwinList}

\* a legacy task with an hour no day has
BadHourTask == [TestTask EXCEPT !.name = "bad", !.hour = 25]

\* config files: none, one that holds a JSON object, one per task list, and
\* one whose list has a rejected task between two accepted ones
Configs ==
    {MissingFile, FileWith([name |-> "not_an_array"]),
     FileWith(L(<<T1, BadHourTask, HttpTask>>))}
        \cup {FileWith(L(ts)) : ts \in TaskLists}

\* Thursday 2026-02-19 01:00:00
LoopT0 == Stamp(3, 1, 0, 0)
StartClocks == {LoopT0 - 50, LoopT0 - 30, LoopT0 - 5, LoopT0 + 15}
LoopEnd == LoopT0 + MaxClock
\* seconds an executor call may block the loop
Durations == {0, 20, 70}

UniqueNames(ts) ==
    \A a, b \in 1..Len(ts) : ts[a].name = ts[b].name => a = b

-----------------------------------------------------------------------------
(* main(): the polling loop *)

\* start of the tick in progress, tasks it has evaluated, how the tick
\* before ended and when it started, whether the status line was logged,
\* the start of the first tick, the largest distance between two consecutive
\* tick starts, whether an exception has reached the loop's handler, the
\* hours whose status line has been logged, whether one was logged twice,
\* and the number of executor calls that have been made and not yet ended
NoTick ==
    [start |-> 0, evaluated |-> {}, prev |-> "none", heartbeat |-> FALSE,
     before |-> 0 - 1, first |-> 0 - 1, gap |-> 0, escaped |-> FALSE,
     beats |-> {}, twice |-> FALSE, inflight |-> 0]

Init ==
    /\ pc = "load"
    /\ config \in Configs
    /\ tasks = <<>>
    /\ last_runs = <<>>
    /\ clock \in StartClocks
    /\ now = 0
    /\ i = 0
    /\ due = FALSE
    /\ result = NoResult
    /\ started = {}
    /\ dup = FALSE
    /\ last_done = <<>>
    /\ ticks = NoTick
    /\ interrupted = "no"

\* lines 372-380: tasks = load_tasks(); an exception it raises leaves main()
\* before the loop; otherwise the loop starts with an empty store
Load ==
    /\ pc = "load"
    /\ LET r == load_tasks(config)
       IN  IF r.raised = "none"
           THEN tasks' = r.tasks /\ pc' = "tick"
           ELSE tasks' = tasks /\ pc' = "failed"
    /\ UNCHANGED <<config, last_runs, clock, now, i, due, result, started, dup,
                   last_done, ticks, interrupted>>

\* where the for loop goes after the task at index k
AfterTask(k) == IF k < Len(tasks) THEN "eval" ELSE "heartbeat"

\* line 384: now = datetime.now(PACIFIC_TZ), then the for loop starts
Tick ==
    /\ pc = "tick"
    /\ clock <= LoopEnd
    /\ now' = clock
    /\ i' = 1
    /\ pc' = AfterTask(0)
    /\ ticks' = [ticks EXCEPT
                    !.start = clock, !.evaluated = {}, !.heartbeat = FALSE,
                    !.before = IF ticks.prev = "none" THEN @ ELSE ticks.start,
                    !.first = IF ticks.prev = "none" THEN clock ELSE @,
                    !.gap = IF ticks.prev # "none" /\ clock - ticks.start > @
                            THEN clock - ticks.start ELSE @]
    /\ UNCHANGED <<config, tasks, last_runs, clock, due, result, started, dup,
                   last_done, interrupted>>

\* a variant of the matcher call that marks the store itself
EvaluateMarking ==
    /\ pc = "eval"
    /\ due' = should_task_run(tasks[i], now, last_runs)
    /\ ticks' = [ticks EXCEPT !.evaluated = @ \cup {i},
                              !.inflight = IF due' THEN @ + 1 ELSE @]
    /\ LET key == <<tasks[i].name, _get_dedup_key(tasks[i], now)>>
       IN  IF due'
           THEN /\ pc' = "dispatch"
                /\ last_runs' = (key[1] :> key[2]) @@ last_runs
                /\ started' = started \cup {key}
                /\ dup' = (dup \/ key \in started)
                /\ i' = i
           ELSE /\ pc' = AfterTask(i)
                /\ i' = i + 1
                /\ UNCHANGED <<started, dup, last_runs>>
    /\ UNCHANGED <<config, tasks, clock, now, result, last_done, interrupted>>

\* a variant that starts the executor of a due task and goes on with the
\* next task without waiting for it
EvaluateAsync ==
    /\ pc = "eval"
    /\ due' = should_task_run(tasks[i], now, last_runs)
    /\ ticks' = [ticks EXCEPT !.evaluated = @ \cup {i},
                              !.inflight = IF due' THEN @ + 1 ELSE @]
    /\ LET key == <<tasks[i].name, _get_dedup_key(tasks[i], now)>>
       IN  IF due'
           THEN /\ started' = started \cup {key}
                /\ dup' = (dup \/ key \in started)
           ELSE UNCHANGED <<started, dup>>
    /\ pc' = AfterTask(i)
    /\ i' = i + 1
    /\ UNCHANGED <<config, tasks, last_runs, clock, now, result, last_done,
                   interrupted>>

\* a variant that matches each task against the time its turn comes
EvaluateAtClock ==
    /\ pc = "eval"
    /\ due' = should_task_run(tasks[i], clock, last_runs)
    /\ ticks' = [ticks EXCEPT !.evaluated = @ \cup {i},
                              !.inflight = IF due' THEN @ + 1 ELSE @]
    /\ LET key == <<tasks[i].name, _get_dedup_key(tasks[i], clock)>>
       IN  IF due'
           THEN /\ pc' = "dispatch"
                /\ started' = started \cup {key}
                /\ dup' = (dup \/ key \in started)
                /\ i' = i
           ELSE /\ pc' = AfterTask(i)
                /\ i' = i + 1
                /\ UNCHANGED <<started, dup>>
    /\ UNCHANGED <<config, tasks, last_runs, clock, now, result, last_done,
                   interrupted>>

\* line 387-388: should_task_run(task, now, last_runs); a due task is
\* logged as triggered and handed to its executor
Evaluate ==
    /\ pc = "eval"
    /\ due' = should_task_run(tasks[i], now, last_runs)
    /\ ticks' = [ticks EXCEPT !.evaluated = @ \cup {i},
                              !.inflight = IF due' THEN @ + 1 ELSE @]
    /\ LET key == <<tasks[i].name, _get_dedup_key(tasks[i], now)>>
       IN  IF due'
           THEN /\ pc' = "dispatch"
                /\ started' = started \cup {key}
                /\ dup' = (dup \/ key \in started)
                /\ i' = i
           ELSE /\ pc' = AfterTask(i)
                /\ i' = i + 1
                /\ UNCHANGED <<started, dup>>
    /\ UNCHANGED <<config, tasks, last_runs, clock, now, result, last_done,
                   interrupted>>

\* a variant that goes on with the next task when the executor raises
DispatchIsolating ==
    /\ pc = "dispatch"
    /\ \E o \in OutcomesOf(tasks[i]), d \in Durations :
         LET r == Execute(tasks[i], o)
         IN  /\ result' = r
             /\ IF r.raised
                THEN /\ pc' = AfterTask(i)
                     /\ i' = i + 1
                     /\ clock' = clock
                ELSE /\ pc' = "record"
                     /\ i' = i
                     /\ clock' = clock + d
    /\ ticks' = [ticks EXCEPT !.inflight = @ - 1]
    /\ UNCHANGED <<config, tasks, last_runs, now, due, started, dup, last_done,
                   interrupted>>

\* lines 390-394: the executor call blocks the loop for d seconds and either
\* returns a code or lets an exception reach the loop's handler
Dispatch ==
    /\ pc = "dispatch"
    /\ \E o \in OutcomesOf(tasks[i]), d \in Durations :
         LET r == Execute(tasks[i], o)
         IN  /\ result' = r
             /\ IF r.raised
                THEN /\ pc' = "backoff"
                     /\ clock' = clock
                ELSE /\ pc' = "record"
                     /\ clock' = clock + d
    /\ ticks' = [ticks EXCEPT !.inflight = @ - 1]
    /\ UNCHANGED <<config, tasks, last_runs, now, i, due, started, dup, last_done,
                   interrupted>>

\* a variant that keeps only the entry it writes
RecordDropping ==
    /\ pc = "record"
    /\ LET name == tasks[i].name
           key  == _get_dedup_key(tasks[i], now)
       IN  /\ last_runs' = (name :> key)
           /\ last_done' =
                 (name :> [key |-> key, ok |-> result.code = 0]) @@ last_done
    /\ result' = NoResult
    /\ pc' = AfterTask(i)
    /\ i' = i + 1
    /\ UNCHANGED <<config, tasks, clock, now, due, started, dup, ticks, interrupted>>

\* a variant that remembers only the successful dispatches
RecordOnSuccess ==
    /\ pc = "record"
    /\ LET name == tasks[i].name
           key  == _get_dedup_key(tasks[i], now)
       IN  /\ last_runs' = IF result.code = 0
                           THEN (name :> key) @@ last_runs ELSE last_runs
           /\ last_done' =
                 (name :> [key |-> key, ok |-> result.code = 0]) @@ last_done
    /\ result' = NoResult
    /\ pc' = AfterTask(i)
    /\ i' = i + 1
    /\ UNCHANGED <<config, tasks, clock, now, due, started, dup, ticks, interrupted>>

\* line 396: last_runs[task["name"]] = _get_dedup_key(task, now)
Record ==
    /\ pc = "record"
    /\ LET name == tasks[i].name
           key  == _get_dedup_key(tasks[i], now)
       IN  /\ last_runs' = (name :> key) @@ last_runs
           /\ last_done' =
                 (name :> [key |-> key, ok |-> result.code = 0]) @@ last_done
    /\ result' = NoResult
    /\ pc' = AfterTask(i)
    /\ i' = i + 1
    /\ UNCHANGED <<config, tasks, clock, now, due, started, dup, ticks, interrupted>>

\* lines 398-400: the hourly status line
Heartbeat ==
    /\ pc = "heartbeat"
    /\ LET logged == MinuteOf(now) = 0 /\ SecondOf(now) < HEARTBEAT_SECONDS
       IN  ticks' = [ticks EXCEPT
                       !.heartbeat = logged,
                       !.beats = IF logged THEN @ \cup {FormatHour(now)} ELSE @,
                       !.twice = @ \/ (logged /\ FormatHour(now) \in ticks.beats)]
    /\ pc' = "sleep"
    /\ UNCHANGED <<config, tasks, last_runs, clock, now, i, due, result, started, dup,
                   last_done, interrupted>>

\* line 402: time.sleep(30)
Sleep ==
    /\ pc = "sleep"
    /\ clock' = clock + TICK_SLEEP
    /\ pc' = "tick"
    /\ ticks' = [ticks EXCEPT !.prev = "sleep"]
    /\ UNCHANGED <<config, tasks, last_runs, now, i, due, result, started, dup,
                   last_done, interrupted>>

\* a variant of the handler that starts over with an empty store
BackoffForgetting ==
    /\ pc = "backoff"
    /\ clock' = clock + BACKOFF_SLEEP
    /\ pc' = "tick"
    /\ last_runs' = <<>>
    /\ result' = NoResult
    /\ ticks' = [ticks EXCEPT !.prev = "backoff", !.escaped = TRUE]
    /\ UNCHANGED <<config, tasks, now, i, due, started, dup, last_done, interrupted>>

\* lines 407-409: except Exception: log, time.sleep(60), next iteration
Backoff ==
    /\ pc = "backoff"
    /\ clock' = clock + BACKOFF_SLEEP
    /\ pc' = "tick"
    /\ result' = NoResult
    /\ ticks' = [ticks EXCEPT !.prev = "backoff", !.escaped = TRUE]
    /\ UNCHANGED <<config, tasks, last_runs, now, i, due, started, dup, last_done,
                   interrupted>>

\* the statements of the try body, lines 383-402
TryBody == {"tick", "eval", "dispatch", "record", "heartbeat", "sleep"}
Running == TryBody \cup {"backoff"}

\* KeyboardInterrupt: inside the try body it is caught by lines 404-406
\* (logged, break); raised while the Exception handler of lines 407-409 runs
\* it is not covered by the sibling except clause and leaves main()
Interrupt ==
    /\ pc \in Running
    /\ interrupted' = pc
    /\ pc' = IF pc \in TryBody THEN "stopped" ELSE "crashed"
    /\ UNCHANGED <<config, tasks, last_runs, clock, now, i, due, result, started, dup,
                   last_done, ticks>>

Next ==
    \/ Load
    \/ Tick
    \/ Evaluate
    \/ Dispatch
    \/ Record
    \/ Heartbeat
    \/ Sleep
    \/ Backoff
    \/ Interrupt

Spec == Init /\ [][Next]_vars

-----------------------------------------------------------------------------
(* Harness for the matcher: one call of should_task_run on drawn inputs,
   and the dispatch that follows when the task is found due *)

MarketTask ==
    [name |-> "cron_weekday", schedule |-> Market, type |-> "command",
     command |-> L(<<S("echo"), S("market")>>), timeout |-> 10]

MatchTasks ==
    {T1, TestTask, WeekdayTask, HttpTask, MarketTask, LegacyHttpTask,
     MixedTask, MixedOddTask, BadHourTask}
MatchHours   == {0, 1, 2, 6, 9}
MatchMinutes == {0, 1, 10, 30, 59}
MatchSeconds == {0, 1, 15, 59}
MatchNows ==
    {Stamp(d, h, m, s) : d \in 2..MaxDay, h \in MatchHours,
                         m \in MatchMinutes, s \in MatchSeconds}

\* dedup stores: empty, holding the bucket of t or of an earlier time under
\* the task's name in either precision, holding another task's entry, or
\* holding both
MatchStores(task, t) ==
    {<<>>,
     task.name :> FormatMinute(t),
     task.name :> FormatHour(t),
     task.name :> FormatMinute(t - SecPerMin),
     task.name :> FormatHour(t - SecPerHour),
     "other_task" :> _get_dedup_key(task, t),
     (task.name :> _get_dedup_key(task, t)) @@ ("other_task" :> FormatHour(t)),
     (task.name :> _get_dedup_key(task, t - SecPerHour))
         @@ ("other_task" :> _get_dedup_key(task, t))}

InitMatch ==
    /\ pc = "m_call"
    /\ \E task \in MatchTasks :
         /\ validate_task(task)
         /\ tasks = <<task>>
         /\ config = FileWith(L(tasks))
         /\ now \in MatchNows
         /\ last_runs \in MatchStores(task, now)
    /\ clock = now
    /\ i = 1
    /\ due = FALSE
    /\ result = NoResult
    /\ started = {}
    /\ dup = FALSE
    /\ last_done = <<>>
    /\ ticks = NoTick
    /\ interrupted = "no"

MatchCall ==
    /\ pc = "m_call"
    /\ due' = should_task_run(tasks[i], now, last_runs)
    /\ pc' = "m_done"
    /\ UNCHANGED <<config, tasks, last_runs, clock, now, i, result, started, dup,
                   last_done, ticks, interrupted>>

\* lines 388-396 for the task found due: the executor call, then the
\* store entry of the task
MatchDispatch ==
    /\ pc = "m_done"
    /\ due
    /\ \E o \in OutcomesOf(tasks[i]) :
         LET r   == Execute(tasks[i], o)
             key == <<tasks[i].name, _get_dedup_key(tasks[i], now)>>
         IN  /\ started' = started \cup {key}
             /\ result' = r
             /\ IF r.raised
                THEN /\ pc' = "m_raised"
                     /\ UNCHANGED <<last_runs, last_done>>
                ELSE /\ pc' = "m_recorded"
                     /\ last_runs' = (key[1] :> key[2]) @@ last_runs
                     /\ last_done' =
                           (key[1] :> [key |-> key[2], ok |-> r.code = 0])
                               @@ last_done
    /\ UNCHANGED <<config, tasks, clock, now, i, due, dup, ticks, interrupted>>

NextMatch == MatchCall \/ MatchDispatch

SpecMatch == InitMatch /\ [][NextMatch]_vars

-----------------------------------------------------------------------------
(* Harness for the weekday cron expression: should_task_run with an empty
   store at instants of every minute of every day of the window *)

MarketSeconds == {0, 1, 59}
MarketNows ==
    {Stamp(d, h, m, s) : d \in 0..MaxDay, h \in 0..23, m \in 0..59,
                         s \in MarketSeconds}

InitMarket ==
    /\ pc = "m_call"
    /\ validate_task(MarketTask)
    /\ tasks = <<MarketTask>>
    /\ config = FileWith(L(tasks))
    /\ now \in MarketNows
    /\ last_runs = <<>>
    /\ clock = now
    /\ i = 1
    /\ due = FALSE
    /\ result = NoResult
    /\ started = {}
    /\ dup = FALSE
    /\ last_done = <<>>
    /\ ticks = NoTick
    /\ interrupted = "no"

SpecMarket == InitMarket /\ [][NextMatch]_vars

-----------------------------------------------------------------------------
(* Harness for validation: one call of validate_task on a drawn task *)

Without(task, k) == [f \in DOMAIN task \ {k} |-> task[f]]
With(task, k, v) == (k :> v) @@ task

\* "0 25 * * *"
BadRangeCron == Cron(<<Val(0)>>, <<Range(25, 25)>>, <<Star>>, <<Star>>, <<Star>>)
\* schedules that are no cron expression: words, a number, an hour 25
BadSchedules == {S("not a cron"), N("123"), BadRangeCron}

ValidateBases == {TestTask, T1, HttpTask, LegacyHttpTask}

\* the task itself and the task with one field removed or replaced
Variants(b) ==
    {b, Without(b, "name"), Without(b, "command"), Without(b, "http"),
     Without(b, "schedule"), Without(b, "type")}
    \cup {With(b, "type", ty) : ty \in {"command", "http", "webhook"}}
    \cup {With(b, "schedule", sch) : sch \in BadSchedules \cup {Market}}
    \cup {With(b, "hour", h) : h \in {0 - 1, 0, 23, 24, 25}}
    \cup {With(b, "minute", m) : m \in {0 - 1, 59, 60, 61}}
    \cup {With(b, "days", d) : d \in {"weekdays", "monthly"}}
    \cup {With(b, "command", c) : c \in {L(<<>>), S("echo hi")}}
    \cup {With(b, "http", h) :
            h \in {[method |-> "POST"], S("not a dict"),
                   [url |-> "http://localhost/api", method |-> "INVALID"],
                   [url |-> "http://localhost/api", method |-> "patch"]}}

\* up to two changes at once, and a value that is no dict
ValidateTasks ==
    UNION {Variants(v) : v \in UNION {Variants(b) : b \in ValidateBases}}
        \cup {S("not a dict")}

InitValidate ==
    /\ pc = "v_call"
    /\ \E task \in ValidateTasks : tasks = <<task>>
    /\ config = FileWith(L(tasks))
    /\ last_runs = <<>>
    /\ clock = LoopT0
    /\ now = LoopT0
    /\ i = 1
    /\ due = FALSE
    /\ result = NoResult
    /\ started = {}
    /\ dup = FALSE
    /\ last_done = <<>>
    /\ ticks = NoTick
    /\ interrupted = "no"

\* validate_task(task): returns, or raises the ValueError of its raise
\* statements
ValidateCall ==
    /\ pc = "v_call"
    /\ pc' = IF validate_task(tasks[i]) THEN "v_returned" ELSE "v_ValueError"
    /\ UNCHANGED <<config, tasks, last_runs, clock, now, i, due, result,
                   started, dup, last_done, ticks, interrupted>>

NextValidate == ValidateCall

SpecValidate == InitValidate /\ [][NextValidate]_vars

-----------------------------------------------------------------------------
(* Harness for the executors: one call on a drawn task and outcome *)

ExecCommands ==
    {L(<<S("echo"), S("hi")>>), L(<<S("sleep"), N("5")>>),
     L(<<S("python3"), S("/app/scripts/clear_tv_watchlist.py")>>)}
ExecTimeouts == {<<>>, [timeout |-> 10], [timeout |-> 60]}
ExecHttp ==
    {[url |-> "http://example.com/health"],
     [url |-> "http://example.com/health", method |-> "GET",
      expected_status |-> {200}],
     [url |-> "http://example.com/api", method |-> "post",
      expected_status |-> {200, 201, 204}],
     [url |-> "http://backendv2:8500/tos-generate", method |-> "POST",
      body |-> <<>>, expected_status |-> {200}],
     [url |-> "http://backendv2:8500/tos-generate", method |-> "POST",
      body |-> [days |-> 1], expected_status |-> {200}]}

ExecTasks ==
    {[name |-> "cmd", schedule |-> Daily0100, command |-> c] @@ to :
        c \in ExecCommands, to \in ExecTimeouts}
    \cup
    {[name |-> "web", schedule |-> Market, type |-> "http", http |-> h] @@ to :
        h \in ExecHttp, to \in ExecTimeouts}

InitExec ==
    /\ pc = "x_call"
    /\ \E task \in ExecTasks : validate_task(task) /\ tasks = <<task>>
    /\ config = FileWith(L(tasks))
    /\ last_runs = <<>>
    /\ clock = LoopT0
    /\ now = LoopT0
    /\ i = 1
    /\ due = TRUE
    /\ result = NoResult
    /\ started = {}
    /\ dup = FALSE
    /\ last_done = <<>>
    /\ ticks = NoTick
    /\ interrupted = "no"

ExecRunTask ==
    /\ pc = "x_call"
    /\ Get(tasks[i], "type", "command") # "http"
    /\ \E o \in ProcOutcomes : result' = run_task(tasks[i], o)
    /\ pc' = "x_done"
    /\ UNCHANGED <<config, tasks, last_runs, clock, now, i, due, started, dup,
                   last_done, ticks, interrupted>>

ExecRunHttp ==
    /\ pc = "x_call"
    /\ Get(tasks[i], "type", "command") = "http"
    /\ \E o \in HttpOutcomes : result' = run_http_task(tasks[i], o)
    /\ pc' = "x_done"
    /\ UNCHANGED <<config, tasks, last_runs, clock, now, i, due, started, dup,
                   last_done, ticks, interrupted>>

NextExec == ExecRunTask \/ ExecRunHttp

SpecExec == InitExec /\ [][NextExec]_vars

-----------------------------------------------------------------------------
(* Properties *)

TaskInHand == tasks[i]
KeyInHand  == _get_dedup_key(tasks[i], now)

\* the loop has been left
LoopLeft == {"stopped", "crashed"}

\* a cron occurrence falls exactly on t
CronOccurrence(c, t) ==
    /\ SecondOf(t) = 0
    /\ MinuteOf(t) \in CronMinutes(c)
    /\ HourOf(t) \in CronHours(c)
    /\ CronDayMatches(c, t)

\* the most recent occurrence at or before t is less than 60 seconds old
OccurrenceWithinWindow(c, t) ==
    \E o \in (t - (CRON_WINDOW - 1))..t : o >= 0 /\ CronOccurrence(c, o)

\* lexicographic order of two keys of the same precision
KeyBefore(a, b) ==
    /\ Len(a) = Len(b)
    /\ \E k \in 1..Len(a) :
         /\ a[k] < b[k]
         /\ \A j \in 1..(k - 1) : a[j] = b[j]

\* C1: with unique task names, the loop never calls an executor twice for the
\* same task and bucket key (minute key for cron, hour key for legacy tasks).
C1_NoDuplicateDispatch == UniqueNames(tasks) => ~dup

\* a second tick inside the minute in which a cron task was already dispatched
C1_Witness ==
    /\ pc = "eval"
    /\ UniqueNames(tasks)
    /\ _is_cron_task(TaskInHand)
    /\ now - get_prev(TaskInHand.schedule, now) < CRON_WINDOW
    /\ <<TaskInHand.name, KeyInHand>> \in started

\* C2: for a cron task should_task_run is true exactly when the latest
\* occurrence at or before now (now itself included) is less than 60 seconds
\* old and the stored key differs from the minute key of now.
C2_CronIffAtOrBefore ==
    (pc = "m_done" /\ _is_cron_task(TaskInHand)) =>
        (due <=> /\ OccurrenceWithinWindow(TaskInHand.schedule, now)
                 /\ DictGet(last_runs, TaskInHand.name) # FormatMinute(now))

\* C3: for a legacy task should_task_run is true exactly when hour and minute
\* of now equal the task's, the day is allowed (not weekdays-only, or Monday
\* to Friday) and the stored key differs from the hour key of now.
C3_LegacyIff ==
    (pc = "m_done" /\ ~_is_cron_task(TaskInHand)) =>
        (due <=> /\ HourOf(now) = TaskInHand.hour
                 /\ MinuteOf(now) = TaskInHand.minute
                 /\ (TaskInHand.days # "weekdays" \/ Weekday(now) \in 0..4)
                 /\ DictGet(last_runs, TaskInHand.name) # FormatHour(now))

\* a weekdays-only task found due, and a daily one found due on a weekend
C3_Witness ==
    /\ pc = "m_done"
    /\ ~_is_cron_task(TaskInHand)
    /\ due
    /\ \/ TaskInHand.days = "weekdays"
       \/ Weekday(now) > LAST_WEEKDAY

\* C4: the matcher call leaves the dedup store as it is; the store changes
\* only in the loop's step that follows a returned executor call, and then
\* only under the name of the dispatched task.
C4_StoreChangesOnlyAfterDispatch ==
    [][/\ pc = "eval" => last_runs' = last_runs
       /\ last_runs' # last_runs =>
            /\ pc = "record"
            /\ result.ran
            /\ \A n \in DOMAIN last_runs :
                 n # TaskInHand.name =>
                    (n \in DOMAIN last_runs' /\ last_runs'[n] = last_runs[n])]_vars

\* the matcher has answered while the store held entries
C4_Witness ==
    /\ pc = "dispatch"
    /\ due
    /\ DOMAIN last_runs # {}

\* C5: when the executor call of a due task returns, with whatever code, the
\* store entry of the task becomes the bucket key of the tick; a task whose
\* last dispatch failed is dispatched again only in a later bucket.
C5_DedupAdvancesOnFailure ==
    /\ [][(pc = "record" /\ pc' \in {"eval", "heartbeat"}) =>
              DictGet(last_runs', TaskInHand.name) = KeyInHand]_vars
    /\ [](  (/\ pc = "dispatch"
             /\ TaskInHand.name \in DOMAIN last_done
             /\ ~last_done[TaskInHand.name].ok)
          => KeyBefore(last_done[TaskInHand.name].key, KeyInHand))

\* a task whose last dispatch failed is being dispatched again
C5_Witness ==
    /\ pc = "dispatch"
    /\ TaskInHand.name \in DOMAIN last_done
    /\ ~last_done[TaskInHand.name].ok

\* C6: an exception raised for one task is caught for that task alone: when
\* the next tick starts every task of the list has been evaluated in the
\* tick before, and the loop got there through the normal 30 second sleep.
C6_PerTaskIsolation ==
    (pc = "tick" /\ ticks.prev # "none") =>
        /\ ticks.evaluated = 1..Len(tasks)
        /\ ticks.prev = "sleep"

\* C7: only an interrupt ends the loop; an exception that reaches the loop's
\* handler is followed by the 60 second sleep and a new tick, with the dedup
\* store as it was.
C7_LoopSurvivesExceptions ==
    /\ [](pc \in LoopLeft => interrupted # "no")
    /\ [][(result'.raised /\ ~result.raised) => pc' = "backoff"]_vars
    /\ [][(pc = "backoff" /\ pc' # "backoff" /\ interrupted' = "no") =>
              /\ pc' = "tick"
              /\ clock' = clock + BACKOFF_SLEEP
              /\ last_runs' = last_runs]_vars

\* a tick that follows the back-off, with the store still filled
C7_Witness ==
    /\ pc = "eval"
    /\ ticks.prev = "backoff"
    /\ DOMAIN last_runs # {}

\* C8: an interrupt delivered anywhere in the running loop, the back-off
\* sleep included, is handled and ends the loop cleanly; nothing else ends it.
C8_InterruptEndsCleanly ==
    /\ interrupted # "no" => pc = "stopped"
    /\ pc \in LoopLeft => interrupted # "no"

\* C9: run_task returns the exit code of the subprocess (0 on success), a
\* nonzero code without raising on timeout or launch error, and passes the
\* task's timeout, or 120 when the task has none.
C9_RunTaskResult ==
    (pc = "x_done" /\ Get(TaskInHand, "type", "command") = "command"
                   /\ result.ran) =>
        /\ ~result.raised
        /\ result.outcome = "exit" => result.code = result.status
        /\ result.outcome \in {"timeout", "error"} => result.code # 0
        /\ result.timeout = (IF Has(TaskInHand, "timeout")
                             THEN TaskInHand.timeout ELSE 120)

\* a failing exit code carried through, by a task without timeout
C9_Witness ==
    /\ pc = "x_done"
    /\ Get(TaskInHand, "type", "command") = "command"
    /\ result.ran
    /\ result.outcome = "exit"
    /\ result.code \notin {0, 1}
    /\ ~Has(TaskInHand, "timeout")

\* C10: for a task accepted by validate_task no executor call lets an
\* exception out.
C10_ExecutorsNeverRaise ==
    (pc = "x_done" /\ validate_task(TaskInHand)) => ~result.raised

\* C11: run_http_task returns 0 exactly when a response arrived and its
\* status is one of expected_status (200 alone when the task names none);
\* every other status, a timeout, a connection failure and any other
\* transport error return 1, and nothing is raised.
C11_HttpResult ==
    (pc = "x_done" /\ Get(TaskInHand, "type", "command") = "http") =>
        /\ ~result.raised
        /\ result.code \in {0, 1}
        /\ result.code = 0 <=>
              /\ result.outcome = "response"
              /\ result.status \in (IF Has(TaskInHand.http, "expected_status")
                                    THEN TaskInHand.http.expected_status
                                    ELSE {200})

\* a 201 answered to a task without expected_status counts as a failure
C11_Witness ==
    /\ pc = "x_done"
    /\ Get(TaskInHand, "type", "command") = "http"
    /\ ~Has(TaskInHand.http, "expected_status")
    /\ result.outcome = "response"
    /\ result.status = 201
    /\ result.code = 1

C13_MarketDue ==
    (pc = "m_done" /\ TaskInHand = MarketTask /\ last_runs = <<>>) =>
        (due <=> /\ Weekday(now) \in 0..4
                 /\ HourOf(now) \in 6..13
                 /\ MinuteOf(now) % 10 = 0)

\* C14: with the single task t1 ("0 1 * * *") and an empty store, the tick
\* at 2026-02-19 01:00:15 finds t1 due and dispatches it, and the store
\* becomes exactly {t1: "2026-02-19 01:00"}; the tick that follows at
\* 01:00:45 finds t1 not due, so t1 is dispatched once in that minute.
C14_EndToEndOnce ==
    /\ [][(/\ pc = "eval" /\ tasks = <<T1>> /\ now = LoopT0 + 15
            /\ last_runs = <<>> /\ interrupted' = "no")
              => (due' /\ pc' = "dispatch")]_vars
    /\ [][(/\ pc = "record" /\ tasks = <<T1>> /\ now = LoopT0 + 15
            /\ interrupted' = "no")
              => last_runs' = ("t1" :> <<2026, 2, 19, 1, 0>>)]_vars
    /\ [][(/\ pc = "eval" /\ tasks = <<T1>> /\ now = LoopT0 + 45
            /\ ticks.before = LoopT0 + 15 /\ interrupted' = "no")
              => (~due' /\ pc' = "heartbeat" /\ last_runs' = last_runs)]_vars
    /\ [](tasks = <<T1>> => ~dup)

\* the tick of 01:00:45 has found t1 not due after its dispatch at 01:00:15
C14_Witness ==
    /\ pc = "heartbeat"
    /\ tasks = <<T1>>
    /\ now = LoopT0 + 45
    /\ ticks.before = LoopT0 + 15
    /\ ~due
    /\ last_runs = ("t1" :> <<2026, 2, 19, 1, 0>>)
    /\ started = {<<"t1", <<2026, 2, 19, 1, 0>>>>}

\* C15: a legacy task with days "weekdays" is never found due and never
\* dispatched at a tick on a Saturday or Sunday, whatever the store holds; a
\* task with days "daily" is found due on every day of the week on which its
\* hour and minute match and the stored key differs.
C15_WeekdaysNeverOnWeekend ==
    /\ (/\ pc \in {"m_done", "m_recorded", "m_raised"}
        /\ ~_is_cron_task(TaskInHand)
        /\ TaskInHand.days = "weekdays"
        /\ Weekday(now) \in {5, 6})
          => (~due /\ started = {})
    /\ (/\ pc = "m_done"
        /\ ~_is_cron_task(TaskInHand)
        /\ TaskInHand.days = "daily"
        /\ HourOf(now) = TaskInHand.hour
        /\ MinuteOf(now) = TaskInHand.minute
        /\ DictGet(last_runs, TaskInHand.name) # FormatHour(now))
          => due

\* the weekdays-only task evaluated at its hour and minute on a Saturday
\* with nothing stored under its name
C15_Witness ==
    /\ pc = "m_done"
    /\ ~_is_cron_task(TaskInHand)
    /\ TaskInHand.days = "weekdays"
    /\ Weekday(now) = 5
    /\ HourOf(now) = TaskInHand.hour
    /\ MinuteOf(now) = TaskInHand.minute
    /\ TaskInHand.name \notin DOMAIN last_runs
    /\ ~due

\* the entry a store holds under one name
OwnEntry(lr, name) == [n \in DOMAIN lr \cap {name} |-> lr[n]]

\* entries under other names: none, the bucket of t in either precision, two
\* names at once
OtherEntries(t) ==
    {<<>>,
     "other_task" :> FormatMinute(t),
     "other_task" :> FormatHour(t),
     ("other_task" :> FormatHour(t - SecPerHour))
         @@ ("third_task" :> FormatMinute(t))}

\* C16: the answer of should_task_run depends only on the store entry under
\* the task's own name: with the entries of other names added, removed or
\* changed the answer is the same; and the dispatch of a task changes no
\* entry but the one under its own name.
C16_OnlyOwnEntry ==
    /\ [](pc = "m_done" =>
            \A others \in OtherEntries(now) :
                due = should_task_run(TaskInHand, now,
                        OwnEntry(last_runs, TaskInHand.name) @@ others))
    /\ [][(pc = "m_done" /\ pc' = "m_recorded") =>
              /\ DOMAIN last_runs' = DOMAIN last_runs \cup {TaskInHand.name}
              /\ \A n \in DOMAIN last_runs :
                    n # TaskInHand.name => last_runs'[n] = last_runs[n]]_vars

\* a task dispatched while another name holds the very key of the tick
C16_Witness ==
    /\ pc = "m_recorded"
    /\ "other_task" \in DOMAIN last_runs
    /\ last_runs["other_task"] = KeyInHand
    /\ last_runs[TaskInHand.name] = KeyInHand

\* the config file is absent, holds no array, or holds a task that
\* validate_task rejects
ConfigBroken(cfg) ==
    \/ ~cfg.exists
    \/ ~IsList(cfg.json)
    \/ \E k \in 1..Len(cfg.json.v) : ~validate_task(cfg.json.v[k])

\* C17: when the config file is missing, holds no array or holds at least
\* one task validate_task rejects, load_tasks raises, the loop is never
\* entered and no task, the valid ones of the list included, is dispatched.
C17_ConfigErrorsAreFatal ==
    ConfigBroken(config) =>
        /\ pc \in {"load", "failed"}
        /\ tasks = <<>>
        /\ started = {}
        /\ ticks = NoTick

\* start-up has failed on a list that holds a task validate_task accepts
C17_Witness ==
    /\ pc = "failed"
    /\ config.exists
    /\ IsList(config.json)
    /\ \E k \in 1..Len(config.json.v) : validate_task(config.json.v[k])

\* the defects of a task: no name, an unknown type, a schedule that is no
\* cron expression, a legacy hour, minute or days value out of range, an
\* http task without url or with an unknown method, a command task whose
\* command is empty or no list
Defective(t) ==
    \/ ~Has(t, "name")
    \/ Get(t, "type", "command") \notin {"command", "http"}
    \/ Has(t, "schedule") /\ t.schedule \in BadSchedules
    \/ /\ ~Has(t, "schedule")
       /\ \/ Has(t, "hour") /\ t.hour \notin 0..23
          \/ Has(t, "minute") /\ t.minute \notin 0..59
          \/ Has(t, "days") /\ t.days \notin {"daily", "weekdays"}
    \/ /\ Get(t, "type", "command") = "http"
       /\ \/ ~Has(t, "http")
          \/ ~IsDict(t.http)
          \/ ~Has(t.http, "url")
          \/ Upper(Get(t.http, "method", "GET"))
                \notin {"GET", "POST", "PUT", "DELETE", "PATCH"}
    \/ /\ Get(t, "type", "command") = "command"
       /\ Has(t, "command")
       /\ (~IsList(t.command) \/ t.command.v = <<>>)

\* C18: validate_task raises ValueError for every task that has no name, a
\* type other than command and http, a schedule that is no valid cron
\* string, a legacy hour outside 0-23, minute outside 0-59 or days other
\* than daily and weekdays, an http type without url or with a method other
\* than GET, POST, PUT, DELETE, PATCH, or a command type with an empty or
\* non-list command.
C18_ValidateRejects ==
    (pc # "v_call" /\ IsDict(TaskInHand) /\ Defective(TaskInHand))
        => pc = "v_ValueError"

\* a legacy task whose only defect is the hour 24 has been rejected
C18_Witness ==
    /\ pc = "v_ValueError"
    /\ TaskInHand = With(TestTask, "hour", 24)

\* the first second of the minute t lies in
MinuteStart(t) == t - SecondOf(t)

\* C19: the loop never catches up on a missed firing. Every dispatch of a
\* cron task is made by a tick that started less than 60 seconds after the
\* occurrence it is recorded for, and every dispatch of a legacy task by a
\* tick that started inside the task's hour and minute; so an occurrence
\* with no tick start in the 60 seconds that follow it, and a legacy minute
\* that holds no tick start, are never dispatched at a later tick.
C19_NoCatchUp ==
    [][started' # started =>
         \E k \in 1..Len(tasks) :
            LET task == tasks[k]
                t    == ticks.start
            IN  IF Has(task, "schedule")
                THEN /\ CronOccurrence(task.schedule, MinuteStart(t))
                     /\ t - MinuteStart(t) < 60
                     /\ started' = started
                           \cup {<<task.name, FormatMinute(MinuteStart(t))>>}
                ELSE /\ HourOf(t) = task.hour
                     /\ MinuteOf(t) = task.minute
                     /\ started' = started \cup {<<task.name, FormatHour(t)>>}
      ]_vars

\* no tick started between 01:00:00 and 01:01:00, and a later tick has
\* gone through the whole list without dispatching the 01:00 firing of t1
C19_Witness ==
    /\ pc = "heartbeat"
    /\ ticks.before >= 0
    /\ ticks.before < LoopT0
    /\ ticks.start >= LoopT0 + 60
    /\ \E k \in 1..Len(tasks) : tasks[k] = T1
    /\ \A e \in started : e[1] # "t1"

\* the minute starts between two instants
MinuteStarts(from, to) == {o \in from..to : SecondOf(o) = 0}

\* the schedule of the task has a firing at the minute start o
Fires(task, o) ==
    IF Has(task, "schedule")
    THEN CronOccurrence(task.schedule, o)
    ELSE /\ HourOf(o) = task.hour
         /\ MinuteOf(o) = task.minute
         /\ (task.days = "daily" \/ Weekday(o) \in 0..4)

\* the key a firing at the minute start o is dispatched under
FiringKey(task, o) ==
    IF Has(task, "schedule") THEN FormatMinute(o) ELSE FormatHour(o)

\* C20: as long as consecutive tick starts have been less than 60 seconds
\* apart and no exception has reached the loop's handler, every firing of
\* every task that lies at or after the first tick start and a full minute
\* before the latest one has been dispatched, and no firing twice: each
\* minute of a cron schedule under its own key, a legacy task once on each
\* day its hour, minute and weekday condition hold.
C20_EveryFiringOnce ==
    (ticks.first >= 0 /\ ticks.gap < 60 /\ ~ticks.escaped) =>
        /\ ~dup
        /\ \A k \in 1..Len(tasks) :
             \A o \in MinuteStarts(ticks.first, ticks.start - 60) :
                Fires(tasks[k], o) =>
                    <<tasks[k].name, FiringKey(tasks[k], o)>> \in started

\* three minutes of smooth running with a slow executor call: the 01:00
\* firing of t1 and of the legacy task and three firings of the every-minute
\* task within the same hour have been dispatched
C20_Witness ==
    /\ pc = "heartbeat"
    /\ ticks.gap > TICK_SLEEP
    /\ ticks.gap < 60
    /\ ~ticks.escaped
    /\ ticks.first <= LoopT0
    /\ <<"t1", <<2026, 2, 19, 1, 0>>>> \in started
    /\ <<"test_task", <<2026, 2, 19, 1>>>> \in started
    /\ {<<"http_task", <<2026, 2, 19, 1, m>>>> : m \in 0..2} \subseteq started

\* C21: the status line is logged exactly once in every hour the loop is
\* running: once the loop, started before 01:00:00, has begun a tick at or
\* after 01:00:30, the line of hour 01 has been logged, and no hour's line
\* is logged twice.
C21_HeartbeatOncePerHour ==
    /\ ~ticks.twice
    /\ (ticks.first >= 0 /\ ticks.first <= LoopT0
            /\ ticks.start >= LoopT0 + HEARTBEAT_SECONDS)
          => <<2026, 2, 19, 1>> \in ticks.beats

\* C22: an interrupt delivered while an executor call is in progress does
\* not end the loop before the call has returned and the store holds the
\* entry of that dispatch: the loop is only left between ticks.
C22_InterruptNotMidDispatch ==
    (pc \in LoopLeft /\ interrupted \in {"dispatch", "record"}) =>
        DictGet(last_runs, TaskInHand.name) = KeyInHand

\* C23: dispatch is strictly sequential: within a tick the tasks are
\* evaluated in list order, a task is evaluated only when no executor call
\* is pending, at most one call is in flight at any time, and the step that
\* writes the store evaluates no task.
C23_SequentialDispatch ==
    /\ [](ticks.inflight \in {0, 1})
    /\ [](pc = "eval" => (ticks.inflight = 0 /\ ticks.evaluated = 1..(i - 1)))
    /\ [][last_runs' # last_runs =>
              (ticks'.evaluated = ticks.evaluated /\ ticks.inflight = 0)]_vars

\* the third task of the list is up after the two before it were dispatched
\* in this tick, the first for 70 seconds
C23_Witness ==
    /\ pc = "eval"
    /\ i = 3
    /\ clock - now >= 70
    /\ \A k \in {1, 2} : <<tasks[k].name, _get_dedup_key(tasks[k], now)>> \in started

\* C24: the store is empty when the loop starts; it holds an entry under a
\* name exactly when a dispatch of a task of that name has completed; the
\* step that completes a dispatch sets the entry to the bucket of the tick's
\* start (minute for a cron task, hour for a legacy task); no entry is ever
\* removed.
C24_StoreLifecycle ==
    /\ []((pc = "load" \/ (pc = "tick" /\ ticks.prev = "none"))
              => last_runs = <<>>)
    /\ [](/\ DOMAIN last_runs = DOMAIN last_done
          /\ \A n \in DOMAIN last_runs : last_runs[n] = last_done[n].key)
    /\ [][\A n \in DOMAIN last_runs : n \in DOMAIN last_runs']_vars
    /\ [][(pc = "record" /\ interrupted' = "no") =>
              /\ TaskInHand.name \in DOMAIN last_runs'
              /\ last_runs'[TaskInHand.name] =
                    (IF Has(TaskInHand, "schedule")
                     THEN FormatMinute(ticks.start)
                     ELSE FormatHour(ticks.start))]_vars

\* the entry of the every-minute task written at 00:59 has been overwritten
\* at 01:00, next to the hour entry of the legacy task
C24_Witness ==
    /\ <<"http_task", <<2026, 2, 19, 0, 59>>>> \in started
    /\ DictGet(last_runs, "http_task") = <<2026, 2, 19, 1, 0>>
    /\ DictGet(last_runs, "test_task") = <<2026, 2, 19, 1>>

\* C25: for a task found due one executor is called, once: run_http_task
\* when the task's type is "http", run_task when it is "command" or absent;
\* a task that is not due reaches no executor.
C25_ExecutorByType ==
    /\ [](pc \in {"m_recorded", "m_raised"} =>
            result.by = (IF Has(TaskInHand, "type") /\ TaskInHand.type = "http"
                         THEN "run_http_task" ELSE "run_task"))
    /\ []((pc = "m_done" /\ ~due) => result.by = "none")
    /\ [][result' # result => (pc = "m_done" /\ due /\ pc' # "m_done")]_vars

\* a task without a type has gone to run_task, being due
C25_Witness ==
    /\ pc = "m_recorded"
    /\ ~Has(TaskInHand, "type")
    /\ result.by = "run_task"
    /\ result.ran

\* year, month and day of a key
DayOfKey(key) == SubSeq(key, 1, 3)

\* C26: with unique task names a legacy task is dispatched at most once per
\* calendar day: whenever it is found due, no dispatch of it has been made
\* on the day of the tick, so the ticks that land inside its minute produce
\* one dispatch.
C26_LegacyOncePerDay ==
    [][(/\ pc = "eval"
        /\ UniqueNames(tasks)
        /\ ~Has(TaskInHand, "schedule")
        /\ due'
        /\ interrupted' = "no")
          => \A e \in started :
                e[1] = TaskInHand.name
                    => DayOfKey(e[2]) # DayOfKey(FormatHour(now))]_vars

\* a second tick inside the minute of a legacy task already dispatched today
C26_Witness ==
    /\ pc = "eval"
    /\ UniqueNames(tasks)
    /\ ~Has(TaskInHand, "schedule")
    /\ HourOf(now) = TaskInHand.hour
    /\ MinuteOf(now) = TaskInHand.minute
    /\ <<TaskInHand.name, FormatHour(now)>> \in started

\* the schedule part of a task is in order, in either form
ScheduleInOrder(t) ==
    IF Has(t, "schedule")
    THEN t.schedule \notin BadSchedules
    ELSE /\ {"hour", "minute", "days"} \subseteq DOMAIN t
         /\ t.hour \in 0..23
         /\ t.minute \in 0..59
         /\ t.days \in {"daily", "weekdays"}

\* C27: the command field is required only of command tasks: validate_task
\* accepts a named task of type http with a valid http config and no command
\* field, whether it is scheduled by a cron string or by hour, minute and
\* days.
C27_CommandOnlyForCommandType ==
    (/\ pc # "v_call"
     /\ IsDict(TaskInHand)
     /\ Has(TaskInHand, "name")
     /\ Get(TaskInHand, "type", "command") = "http"
     /\ ~Has(TaskInHand, "command")
     /\ Has(TaskInHand, "http")
     /\ IsDict(TaskInHand.http)
     /\ Has(TaskInHand.http, "url")
     /\ Upper(Get(TaskInHand.http, "method", "GET"))
            \in {"GET", "POST", "PUT", "DELETE", "PATCH"}
     /\ ScheduleInOrder(TaskInHand))
        => pc = "v_returned"

\* C28: the presence of the schedule field alone selects the form of a
\* task. A task with a schedule has passed validation on its cron string
\* whatever hour, minute and days it carries, is matched by the cron rule and
\* keyed by the minute; a task without one has passed validation on its
\* legacy fields, is matched by the legacy rule and keyed by the hour.
C28_FormBySchedulePresence ==
    /\ Has(TaskInHand, "schedule") =>
          /\ TaskInHand.schedule \notin BadSchedules
          /\ pc = "m_done" =>
                (due <=> /\ now - get_prev(TaskInHand.schedule, now) < CRON_WINDOW
                         /\ DictGet(last_runs, TaskInHand.name)
                                # FormatMinute(now))
          /\ pc = "m_recorded" => last_runs[TaskInHand.name] = FormatMinute(now)
    /\ ~Has(TaskInHand, "schedule") =>
          /\ ScheduleInOrder(TaskInHand)
          /\ pc = "m_done" =>
                (due <=> /\ HourOf(now) = TaskInHand.hour
                         /\ MinuteOf(now) = TaskInHand.minute
                         /\ (TaskInHand.days = "daily" \/ Weekday(now) \in 0..4)
                         /\ DictGet(last_runs, TaskInHand.name) # FormatHour(now))
          /\ pc = "m_recorded" => last_runs[TaskInHand.name] = FormatHour(now)

\* a task with a schedule and with legacy fields that are out of range has
\* been dispatched and keyed by the minute
C28_Witness ==
    /\ pc = "m_recorded"
    /\ Has(TaskInHand, "schedule")
    /\ Has(TaskInHand, "hour")
    /\ TaskInHand.hour \notin 0..23
    /\ last_runs[TaskInHand.name] = FormatMinute(now)

\* the bucket of the instant t under the task's schedule form
BucketOf(task, t) ==
    IF Has(task, "schedule") THEN FormatMinute(t) ELSE FormatHour(t)

\* C29: every task of a tick is matched against the instant the tick
\* started, however long the dispatches before it in the same tick have
\* taken: it is found due exactly when the matcher says so for the tick's
\* start, it is dispatched under the bucket of the tick's start, and the
\* entry written when its dispatch returns names that bucket and not the
\* bucket of the instant the dispatch finished.
C29_TickStartTimestamp ==
    /\ [][(pc = "eval" /\ pc' \notin LoopLeft) =>
              /\ due' = should_task_run(TaskInHand, ticks.start, last_runs)
              /\ due' => started' = started
                    \cup {<<TaskInHand.name, BucketOf(TaskInHand, ticks.start)>>}
              /\ ~due' => started' = started]_vars
    /\ [][(pc = "record" /\ pc' \notin LoopLeft) =>
              last_runs' = (TaskInHand.name :> BucketOf(TaskInHand, ticks.start))
                              @@ last_runs]_vars

\* the dispatches of the first tick, begun at 01:00:15, took 140 seconds or
\* more, at least 70 of them before the turn of the every-minute task, the
\* last of its list; it was dispatched all the same and its entry names
\* 01:00, the clock being past 01:02
C29_Witness ==
    /\ pc = "heartbeat"
    /\ ticks.first = ticks.start
    /\ ticks.start = LoopT0 + 15
    /\ clock - ticks.start >= 140
    /\ <<"http_task", FormatMinute(ticks.start)>> \in started
    /\ DictGet(last_runs, "http_task") = FormatMinute(ticks.start)
    /\ FormatMinute(clock) # FormatMinute(ticks.start)

\* C30: the key stored after a dispatch is the key the matcher compares for
\* the same task and instant, so with that entry in the store the matcher
\* answers no for the instant; and whenever the cron matcher answers yes,
\* the instant and the cron occurrence before it lie in the same calendar
\* minute, so that the key stored for a cron task is the minute of the
\* matched occurrence.
C30_StoredKeyIsMatcherKey ==
    /\ pc = "m_recorded" =>
          /\ ~should_task_run(TaskInHand, now, last_runs)
          /\ \A lr \in MatchStores(TaskInHand, now) :
                should_task_run(TaskInHand, now, lr) =>
                    DictGet(lr, TaskInHand.name) # last_runs[TaskInHand.name]
    /\ (pc # "m_call" /\ due /\ Has(TaskInHand, "schedule")) =>
          LET prev_match == get_prev(TaskInHand.schedule, now)
          IN  /\ FormatMinute(prev_match) = FormatMinute(now)
              /\ prev_match = MinuteStart(now)
              /\ pc = "m_recorded" =>
                    last_runs[TaskInHand.name] = FormatMinute(prev_match)

\* a cron task matched in the last second of the occurrence's minute has
\* been dispatched and its entry written
C30_Witness ==
    /\ pc = "m_recorded"
    /\ Has(TaskInHand, "schedule")
    /\ SecondOf(now) = 59
    /\ last_runs[TaskInHand.name]
          = FormatMinute(get_prev(TaskInHand.schedule, now))

\* C31: when an exception leaves the dispatch of a task in the middle of a
\* tick, the store is left as it was: the entries of the dispatches
\* completed before are kept and the failing task gets none for this
\* bucket; the loop goes to its handler with the tasks after the failing
\* one not evaluated and the status line of the tick not considered, and
\* the next tick starts 60 seconds later, not 30.
C31_ExceptionMidTick ==
    /\ [][(pc = "dispatch" /\ result'.raised) =>
              (pc' = "backoff" /\ last_runs' = last_runs)]_vars
    /\ [](pc = "backoff" =>
              /\ ticks.evaluated = 1..i
              /\ ~ticks.heartbeat
              /\ DictGet(last_runs, TaskInHand.name) # KeyInHand
              /\ \A n \in DOMAIN last_done : last_runs[n] = last_done[n].key)
    /\ [][(pc = "backoff" /\ pc' \notin LoopLeft) =>
              /\ pc' = "tick"
              /\ clock' = clock + 60
              /\ last_runs' = last_runs
              /\ ticks'.evaluated = ticks.evaluated
              /\ ticks'.beats = ticks.beats]_vars

\* the tick begun at 01:00:15 dispatched t1 and the legacy task, then the
\* third of four tasks raised: both entries are in the store, the third
\* task has none, the fourth was not evaluated, the line of hour 01 was not
\* logged, and the next tick is about to start a minute or more later
C31_Witness ==
    /\ pc = "tick"
    /\ ticks.prev = "backoff"
    /\ ticks.start = LoopT0 + 15
    /\ Len(tasks) = 4 /\ i = 3
    /\ ticks.evaluated = {1, 2, 3}
    /\ DictGet(last_runs, "t1") = <<2026, 2, 19, 1, 0>>
    /\ DictGet(last_runs, "test_task") = <<2026, 2, 19, 1>>
    /\ <<"sleeper", <<2026, 2, 19, 1, 0>>>> \in started
    /\ "sleeper" \notin DOMAIN last_runs
    /\ <<2026, 2, 19, 1>> \notin ticks.beats
    /\ clock - ticks.start >= 60

\* the schedule of the task matches the instant t, the store left aside
ScheduleMatches(task, t) ==
    IF Has(task, "schedule")
    THEN t - get_prev(task.schedule, t) < CRON_WINDOW
    ELSE /\ HourOf(t) = task.hour
         /\ MinuteOf(t) = task.minute
         /\ (task.days = "daily" \/ Weekday(t) \in 0..4)

\* tasks of one name have one schedule form
TwinsOfOneForm(ts) ==
    \A a, b \in 1..Len(ts) :
        ts[a].name = ts[b].name =>
            (Has(ts[a], "schedule") <=> Has(ts[b], "schedule"))

\* C32: a list in which tasks share a name is loaded as it is, and tasks
\* of one name share one entry of the store: when the turn of a task comes
\* whose schedule matches the tick and a task of the same name and schedule
\* form before it in the list matches as well, the entry written for the
\* earlier one holds the bucket and the later one is not dispatched, so
\* that each bucket of the name sees one dispatch.
C32_SharedNameSharedEntry ==
    /\ []((pc # "load" /\ config \in {FileWith(L(ts)) : ts \in TaskLists})
             => tasks = config.json.v)
    /\ [][(pc = "eval" /\ pc' \notin LoopLeft) =>
              \A k \in 1..(i - 1) :
                 (/\ tasks[k].name = TaskInHand.name
                  /\ Has(tasks[k], "schedule") <=> Has(TaskInHand, "schedule")
                  /\ ScheduleMatches(tasks[k], now)
                  /\ ScheduleMatches(TaskInHand, now))
                 => /\ ~due'
                    /\ started' = started
                    /\ <<TaskInHand.name, KeyInHand>> \in started
                    /\ DictGet(last_runs, TaskInHand.name) = KeyInHand]_vars
    /\ [](TwinsOfOneForm(tasks) => ~dup)

\* the tick begun at 01:00:15 has gone through two pairs of tasks of one
\* name: one dispatch per name was started, the store has one entry per
\* name
C32_Witness ==
    /\ pc = "heartbeat"
    /\ tasks = TwinList
    /\ ticks.start = LoopT0 + 15
    /\ ticks.evaluated = 1..4
    /\ started = {<<"t1", <<2026, 2, 19, 1, 0>>>>, <<"test_task", <<2026, 2, 19, 1>>>>}
    /\ ~dup
    /\ DOMAIN last_runs = {"t1", "test_task"}

====
